---- MODULE Spec2Model ----
(***************************************************************************)
(* Model of the round-robin proxy HTTP client of hoe_parser                *)
(* (package request_client: ProxyClient, NewProxyClient, GetGlobalClient). *)
(*                                                                         *)
(* The client state is the struct ProxyClient (proxies, currentIdx, mutex, *)
(* maxRetries, fallbackOK).  Every caller goroutine runs Do; its position  *)
(* and local variables are kept in frame[c].  A network round trip         *)
(* (http.Client.Do) is an external event: it either yields a response of   *)
(* some status or a transport error, chosen nondeterministically.          *)
(***************************************************************************)
EXTENDS Integers, Naturals, Sequences, FiniteSets, TLC

\* ---------------------------------------------------------------- bounds
MaxProxies == 3        \* longest proxy list handed to NewProxyClient
NumCallers == 2        \* goroutines calling Do concurrently
MaxCalls == 3          \* Do calls begun in one run
MaxRetriesInput == 2   \* largest argument given to SetMaxRetries
MaxBodyLen == 2        \* longest request body

\* ------------------------------------------------------- program constants
DefaultMaxRetries == 3

Callers == 1 .. NumCallers
Free == 0              \* mutex not held
Direct == -1           \* target of an attempt made without proxy (proxyURL == "")
None == -2             \* no target yet

\* ------------------------------------------------------------ URLs, bytes
\* A proxy URL string, split at "://": "http://proxy:8080" has scheme
\* "http"; "://invalid" has an empty scheme; "" is the empty string.
GoodURL == [scheme |-> "http", rest |-> "proxy:8080"]
BadURL == [scheme |-> "", rest |-> "invalid"]
EmptyURL == [scheme |-> "", rest |-> ""]
ProxyURLs == {GoodURL, BadURL}

\* the parse error ignored
urlParseAny(u) == TRUE

\* url.Parse: a URL that starts with a colon has no protocol scheme.
urlParseOK(u) == ~(u.scheme = "" /\ u.rest # "")

\* An io.Reader argument: nil, or a reader over some bytes.
NilBody == [isNil |-> TRUE, bytes |-> << >>]
Bytes(n) == [k \in 1 .. n |-> k]
Bodies == {NilBody} \cup {[isNil |-> FALSE, bytes |-> Bytes(n)] : n \in 0 .. MaxBodyLen}

\* ---------------------------------------------------------------- errors
NoErr == [kind |-> "nil"]
Err(k) == [kind |-> k]
Wrap(k, e) == [kind |-> k, cause |-> e]
NoResp == [via |-> None, status |-> 0]
Statuses == {200, 500}
\* Outcome of one http.Client.Do: 0 is a transport error (no response).
Outcomes == {0} \cup Statuses

VARIABLES
  proxies,      \* ProxyClient.proxies
  currentIdx,   \* ProxyClient.currentIdx
  mutex,        \* ProxyClient.mutex: Free or the caller holding it
  maxRetries,   \* ProxyClient.maxRetries
  fallbackOK,   \* ProxyClient.fallbackOK
  frame,        \* per caller: position in Do and its locals
  callers,      \* the goroutines that use the client
  calls,        \* number of Do calls begun
  starts,       \* start indices returned by getNextProxyIndex, in order
  site,         \* the crawled site: the listing hrefs on each index page
  prod,         \* StartContinuousMonitoring: position and locals
  linkChan,     \* main: the buffered channel of listing URLs
  ctxDone,      \* main: cancel() was called
  mainPc,       \* main: waiting for the signal, in the grace sleep, exited
  dispPc,       \* main: the dispatcher goroutine
  received,     \* the links the dispatcher took from linkChan, in order
  tasks,        \* one per received link: its processing goroutine
  emitted,      \* the links sent on linkChan, in order
  visited,      \* the index pages scrapePageLinks was called for, in order
  inserted,     \* what the latest call of retryInsert did
  late,         \* what was begun after cancel(): a page fetch, a link's goroutine
  arg,          \* the argument of the function under study
  ret           \* its results, one per evaluation

clientVars == <<proxies, currentIdx, mutex, maxRetries, fallbackOK, frame, callers, calls, starts>>
crawlVars == <<site, prod, linkChan, ctxDone, mainPc, dispPc, received, tasks, inserted, emitted, visited, late>>
pureVars == <<arg, ret>>
vars == <<clientVars, crawlVars, pureVars>>

\* the crawl pipeline is not running
CrawlOff ==
  /\ site = << >> /\ prod = << >> /\ linkChan = << >> /\ ctxDone = FALSE
  /\ mainPc = "off" /\ dispPc = "off" /\ received = << >> /\ tasks = << >>
  /\ inserted = << >> /\ emitted = << >> /\ visited = << >> /\ late = << >>

\* no function is under study
PureOff == arg = << >> /\ ret = << >>

N == Len(proxies)
ProxyAt(k) == proxies[k + 1]     \* Go slices are 0-based

\* ----------------------------------------------------------- construction
NewProxyClient(ps) ==
  [proxies |-> ps, currentIdx |-> 0, maxRetries |-> DefaultMaxRetries, fallbackOK |-> FALSE]

\* globalClient is nil until InitGlobalClient ran.
NilClient == [proxies |-> << >>, currentIdx |-> -1, maxRetries |-> 0, fallbackOK |-> FALSE]
GetGlobalClient(globalClient) ==
  IF globalClient = NilClient THEN NewProxyClient(<< >>) ELSE globalClient

Pools == UNION {[1 .. n -> ProxyURLs] : n \in 0 .. MaxProxies}

\* The frame of a caller: pc is its position in Do; body, reqOK are the
\* arguments (reqOK: http.NewRequest accepts method and url); reader is the
\* unread rest of body; idx, startIdx, i, target (the proxy index of the
\* current doRequestWithProxy call), bodyBytes, attempt, lastErr are the
\* locals of getNextProxyIndex, Do and doRequestWithProxy; resp, err is what
\* Do returned.  cursor0 is the cursor when the call began and prevFailed
\* the proxies that failed in the caller's previous call.
IdleFrame ==
  [pc |-> "idle", body |-> NilBody, reader |-> << >>, reqOK |-> TRUE,
   cursor0 |-> 0, idx |-> 0, startIdx |-> 0, i |-> 0, target |-> None,
   bodyBytes |-> NilBody, attempt |-> 0, lastErr |-> NoErr,
   resp |-> NoResp, err |-> NoErr,
   \* history of the call: targets handed to doRequestWithProxy, the errors
   \* it returned, and the requests put on the wire
   tried |-> << >>, errs |-> << >>, sent |-> << >>,
   prevFailed |-> {}]

\* The callers cs are handed one of the clients.
Start(cs, clients) ==
  /\ \E pc \in clients :
       /\ proxies = pc.proxies
       /\ currentIdx = pc.currentIdx
       /\ maxRetries = pc.maxRetries
       /\ fallbackOK = pc.fallbackOK
  /\ mutex = Free
  /\ frame = [c \in Callers |-> IdleFrame]
  /\ callers = cs
  /\ calls = 0
  /\ starts = << >>

\* One goroutine uses the client it got from GetGlobalClient(), before or
\* after InitGlobalClient, or from NewProxyClient directly.
Init ==
  /\ Start({1}, {GetGlobalClient(g) : g \in {NilClient} \cup {NewProxyClient(ps) : ps \in Pools}})
  /\ CrawlOff /\ PureOff

\* Several goroutines share a client; its proxies are well-formed and it was
\* set up with SetMaxRetries(1), so that a proxy is given one attempt (the
\* retries of a call touch nothing the goroutines share).
InitConc ==
  /\ Start(Callers, {[NewProxyClient(ps) EXCEPT !.maxRetries = 1] :
                       ps \in {qs \in Pools : \A k \in 1 .. Len(qs) : qs[k] = GoodURL}})
  /\ CrawlOff /\ PureOff

\* f with the fields of s replaced
With(f, s) == [k \in DOMAIN f |-> IF k \in DOMAIN s THEN s[k] ELSE f[k]]
Set(c, s) == frame' = [frame EXCEPT ![c] = With(frame[c], s)]

\* ------------------------------------------------------------ configuration
\* The client is configured before it is used (README, Manual Client
\* Creation: NewProxyClient, SetMaxRetries, SetFallbackAllowed, then Get).
SetMaxRetries(retries) ==
  /\ calls = 0
  /\ maxRetries' = retries
  /\ UNCHANGED <<proxies, currentIdx, mutex, fallbackOK, frame, callers, calls, starts>>
  /\ UNCHANGED <<crawlVars, pureVars>>

SetFallbackAllowed(allowed) ==
  /\ calls = 0
  /\ fallbackOK' = allowed
  /\ UNCHANGED <<proxies, currentIdx, mutex, maxRetries, frame, callers, calls, starts>>
  /\ UNCHANGED <<crawlVars, pureVars>>

\* ---------------------------------------------------------------------- Do
\* Proxies of the previous call of this caller whose attempts failed.
FailedIn(f) ==
  {f.tried[k] : k \in 1 .. Len(f.tried)} \ {Direct, f.resp.via}

\* Do returns (nil, error): lines 144-148.
FinishDo(f) ==
  With(f, [pc |-> "done", resp |-> NoResp,
           err |-> IF f.lastErr # NoErr
                   THEN Wrap("all proxy attempts failed", f.lastErr)
                   ELSE Err("no working proxy found and fallback disabled")])

\* lastErr keeps the first error instead of the last
ReturnErrKeepFirst(f, e) ==
  LET first == IF f.lastErr = NoErr THEN e ELSE f.lastErr IN
  IF f.target = Direct
  THEN FinishDo(With(f, [lastErr |-> first, errs |-> Append(f.errs, e)]))
  ELSE With(f, [lastErr |-> first, errs |-> Append(f.errs, e), i |-> f.i + 1,
                pc |-> IF f.i + 1 < Len(proxies) THEN "proxy" ELSE "fallback"])

\* doRequestWithProxy returned (nil, e) to Do: lines 128-132 and 138-142.
ReturnErr(f, e) ==
  IF f.target = Direct
  THEN FinishDo(With(f, [lastErr |-> e, errs |-> Append(f.errs, e)]))
  ELSE With(f, [lastErr |-> e, errs |-> Append(f.errs, e), i |-> f.i + 1,
                pc |-> IF f.i + 1 < N THEN "proxy" ELSE "fallback"])

\* the return on success forgotten: the loop goes on to the next proxy
ReturnRespContinue(f, r) ==
  IF f.target = Direct
  THEN With(f, [pc |-> "done", resp |-> r, err |-> NoErr])
  ELSE With(f, [resp |-> r, err |-> NoErr, i |-> f.i + 1,
                pc |-> IF f.i + 1 < Len(proxies) THEN "proxy" ELSE "done"])

\* doRequestWithProxy returned (resp, nil) and Do returns it.
ReturnResp(f, r) == With(f, [pc |-> "done", resp |-> r, err |-> NoErr])

\* io.ReadAll(body): everything not yet read; the reader is then at EOF.
ReadAll(f) == [isNil |-> FALSE, bytes |-> f.reader]

\* the retry loop tests its bound only after the first attempt
EnterRequestOnce(f, t, u) ==
  LET g == With(f, [target |-> t, tried |-> Append(f.tried, t)]) IN
  IF u # EmptyURL /\ ~urlParseOK(u)
  THEN ReturnErr(g, Err("invalid proxy URL"))
  ELSE LET h == IF f.body.isNil
                THEN With(g, [bodyBytes |-> NilBody])
                ELSE With(g, [bodyBytes |-> ReadAll(f), reader |-> << >>])
       IN With(h, [attempt |-> 0, pc |-> "attempt"])

\* Entry of doRequestWithProxy up to the first test of the retry loop
\* (lines 153-167) for target t with URL u.
EnterRequest(f, t, u) ==
  LET g == With(f, [target |-> t, tried |-> Append(f.tried, t)]) IN
  IF u # EmptyURL /\ ~urlParseOK(u)
  THEN ReturnErr(g, Err("invalid proxy URL"))
  ELSE LET h == IF f.body.isNil
                THEN With(g, [bodyBytes |-> NilBody])
                ELSE With(g, [bodyBytes |-> ReadAll(f), reader |-> << >>])
       IN IF 0 < maxRetries
          THEN With(h, [attempt |-> 0, pc |-> "attempt"])
          ELSE ReturnErr(h, Err("unexpected end of retry loop"))

DoBegin(c, body, reqOK) ==
  /\ frame[c].pc \in {"idle", "done"}
  /\ calls < MaxCalls
  /\ calls' = calls + 1
  /\ Set(c, With(IdleFrame,
            [body |-> body, reader |-> body.bytes, reqOK |-> reqOK,
             cursor0 |-> currentIdx, prevFailed |-> FailedIn(frame[c]),
             pc |-> IF Len(proxies) > 0 THEN "lock" ELSE "fallback"]))
  /\ UNCHANGED <<proxies, currentIdx, mutex, maxRetries, fallbackOK, callers, starts>>
  /\ UNCHANGED <<crawlVars, pureVars>>

\* the mutex not taken
LockNoMutex(c) ==
  /\ frame[c].pc = "lock"
  /\ mutex' = c
  /\ Set(c, [pc |-> "read"])
  /\ UNCHANGED <<proxies, currentIdx, maxRetries, fallbackOK, callers, calls, starts>>
  /\ UNCHANGED <<crawlVars, pureVars>>

\* getNextProxyIndex: pc.mutex.Lock()
Lock(c) ==
  /\ frame[c].pc = "lock"
  /\ mutex = Free
  /\ mutex' = c
  /\ Set(c, [pc |-> "read"])
  /\ UNCHANGED <<proxies, currentIdx, maxRetries, fallbackOK, callers, calls, starts>>
  /\ UNCHANGED <<crawlVars, pureVars>>

\* getNextProxyIndex: idx := pc.currentIdx
ReadIdx(c) ==
  /\ frame[c].pc = "read"
  /\ Set(c, [pc |-> "advance", idx |-> IF Len(proxies) = 0 THEN 0 ELSE currentIdx])
  /\ UNCHANGED <<proxies, currentIdx, mutex, maxRetries, fallbackOK, callers, calls, starts>>
  /\ UNCHANGED <<crawlVars, pureVars>>

\* the wrap-around forgotten
NextIdxNoWrap(cur, n) == cur + 1

\* line 72: (pc.currentIdx + 1) % len(pc.proxies)
NextIdx(cur, n) == (cur + 1) % n

\* getNextProxyIndex: advance the cursor, return idx, deferred Unlock
Advance(c) ==
  /\ frame[c].pc = "advance"
  /\ currentIdx' = IF Len(proxies) = 0 THEN currentIdx ELSE NextIdx(currentIdx, Len(proxies))
  /\ mutex' = Free
  /\ starts' = Append(starts, frame[c].idx)
  /\ Set(c, [pc |-> "proxy", startIdx |-> frame[c].idx, i |-> 0])
  /\ UNCHANGED <<proxies, maxRetries, fallbackOK, callers, calls>>
  /\ UNCHANGED <<crawlVars, pureVars>>

\* the loop variable forgotten: the selected proxy is tried again
ProxyIdxSame(startIdx, i, n) == startIdx % n

\* line 124: (startIdx + i) % len(pc.proxies)
ProxyIdx(startIdx, i, n) == (startIdx + i) % n

\* a proxy that failed in the caller's previous request is passed over
TryProxySkipFailed(c) ==
  LET f == frame[c]
      proxyIdx == ProxyIdx(f.startIdx, f.i, Len(proxies)) IN
  /\ f.pc = "proxy"
  /\ f.i < Len(proxies)
  /\ frame' = [frame EXCEPT ![c] =
       IF proxyIdx \in f.prevFailed
       THEN With(f, [i |-> f.i + 1, pc |-> IF f.i + 1 < Len(proxies) THEN "proxy" ELSE "fallback"])
       ELSE EnterRequest(f, proxyIdx, ProxyAt(proxyIdx))]
  /\ UNCHANGED <<proxies, currentIdx, mutex, maxRetries, fallbackOK, callers, calls, starts>>
  /\ UNCHANGED <<crawlVars, pureVars>>

\* Do: one iteration of the loop over the proxies, up to the first attempt
TryProxy(c) ==
  LET f == frame[c]
      proxyIdx == ProxyIdx(f.startIdx, f.i, Len(proxies)) IN
  /\ f.pc = "proxy"
  /\ f.i < Len(proxies)
  /\ frame' = [frame EXCEPT ![c] = EnterRequest(f, proxyIdx, ProxyAt(proxyIdx))]
  /\ UNCHANGED <<proxies, currentIdx, mutex, maxRetries, fallbackOK, callers, calls, starts>>
  /\ UNCHANGED <<crawlVars, pureVars>>

\* Do: after the loop (lines 135-148)
AfterProxies(c) ==
  LET f == frame[c] IN
  /\ f.pc = "fallback"
  /\ frame' = [frame EXCEPT ![c] =
                 IF fallbackOK THEN EnterRequest(f, Direct, EmptyURL) ELSE FinishDo(f)]
  /\ UNCHANGED <<proxies, currentIdx, mutex, maxRetries, fallbackOK, callers, calls, starts>>
  /\ UNCHANGED <<crawlVars, pureVars>>

\* What one attempt puts on the wire, and what came back.
Wire(f, o) == [target |-> f.target, body |-> f.bodyBytes.bytes, outcome |-> o]

\* only a 200 counts as success
RespondedOK(o) == o = 200

\* client.Do returned err == nil: a response was received, whatever its status.
Responded(o) == o # 0

\* doRequestWithProxy: one iteration of the retry loop (lines 167-199)
Attempt(c) ==
  LET f == frame[c] IN
  /\ f.pc = "attempt"
  /\ IF ~f.reqOK      \* http.NewRequest rejects the method or URL
     THEN frame' = [frame EXCEPT ![c] = ReturnErr(f, Err("failed to create request"))]
     ELSE \E o \in Outcomes :
            LET g == With(f, [sent |-> Append(f.sent, Wire(f, o))]) IN
            frame' = [frame EXCEPT ![c] =
              IF Responded(o)
              THEN ReturnResp(g, [via |-> f.target, status |-> o])
              ELSE IF f.attempt = maxRetries - 1
              THEN ReturnErr(g, Wrap("request failed after attempts", Err("transport")))
              ELSE IF f.attempt + 1 < maxRetries
              THEN With(g, [attempt |-> f.attempt + 1])
              ELSE ReturnErr(g, Err("unexpected end of retry loop"))]
  /\ UNCHANGED <<proxies, currentIdx, mutex, maxRetries, fallbackOK, callers, calls, starts>>
  /\ UNCHANGED <<crawlVars, pureVars>>

\* Get(url) is Do("GET", url, nil, nil); a goroutine fetches one page.
Get(c) ==
  /\ frame[c].pc = "idle"
  /\ DoBegin(c, NilBody, TRUE)

Steps ==
  \/ \E c \in callers : Lock(c)
  \/ \E c \in callers : ReadIdx(c)
  \/ \E c \in callers : Advance(c)
  \/ \E c \in callers : TryProxy(c)
  \/ \E c \in callers : AfterProxies(c)
  \/ \E c \in callers : Attempt(c)

Next ==
  \/ \E r \in -1 .. MaxRetriesInput : SetMaxRetries(r)
  \/ \E b \in BOOLEAN : SetFallbackAllowed(b)
  \/ \E c \in callers, body \in Bodies, ok \in BOOLEAN : DoBegin(c, body, ok)
  \/ Steps

Spec == Init /\ [][Next]_vars

\* Concurrent page fetches: every goroutine issues Get requests.
NextConc ==
  \/ \E c \in callers : Get(c)
  \/ Steps

SpecConc == InitConc /\ [][NextConc]_vars

\* ------------------------------------------------------------------ claims
\* The proxy targets of a call, in the order they were tried.
ProxiesTried(f) == SelectSeq(f.tried, LAMBDA t : t # Direct)

\* s, s+1, ..., s+n-1 (mod n)
Rotation(s, n) == [k \in 1 .. n |-> (s + k - 1) % n]

\* Every proxy of a non-empty pool has failed in the call of frame f.
AllProxiesFailed(f) ==
  /\ N >= 1
  /\ f.pc \in {"fallback", "attempt", "done"}
  /\ f.i = N

\* C1: in a Do call on N >= 1 proxies that all fail, the proxies tried are
\* the N configured ones, each once, in the order startIdx, startIdx+1, ...,
\* startIdx+N-1 (mod N), startIdx being the cursor at the start of the call;
\* the direct attempt, if any, comes only after all of them.
C1_EachProxyOnceInOrder ==
  \A c \in callers :
    LET f == frame[c] IN
    AllProxiesFailed(f) =>
      /\ f.startIdx = f.cursor0
      /\ ProxiesTried(f) = Rotation(f.cursor0, N)
      /\ \A k \in 1 .. Len(f.tried) : f.tried[k] = Direct => k = N + 1

C1_Witness ==
  \E c \in callers :
    LET f == frame[c] IN
    /\ AllProxiesFailed(f) /\ f.pc = "done"
    /\ N >= 2 /\ f.startIdx = N - 1
    /\ Len(f.tried) = N + 1 /\ Len(f.sent) > N

\* No Do call is in progress.
Quiescent == \A c \in callers : frame[c].pc \in {"idle", "done"}

\* Callers that entered Do but have not yet advanced the cursor.
BeforeAdvance == {c \in callers : frame[c].pc \in {"lock", "read", "advance"}}

\* C2: the cursor is advanced exactly once per Do call, however many
\* proxies and retries the call takes: with N >= 1 proxies and K calls past
\* getNextProxyIndex the cursor is K mod N.
C2_CursorIsCallsModN ==
  N >= 1 => currentIdx = (calls - Cardinality(BeforeAdvance)) % N

C2_Witness ==
  /\ Quiescent /\ calls = 3 /\ N = 2 /\ currentIdx = 1
  /\ \E c \in callers : Len(frame[c].sent) >= 4 /\ frame[c].resp # NoResp

\* C3: every request put on the wire for a Do call with a non-nil body
\* carries the complete bytes the caller supplied.
C3_EveryAttemptSendsFullBody ==
  \A c \in callers :
    LET f == frame[c] IN
    ~f.body.isNil => \A k \in 1 .. Len(f.sent) : f.sent[k].body = f.body.bytes

\* C4: with an empty pool Do issues a direct request, whatever the
\* fallback flag is.
C4_EmptyPoolGoesDirect ==
  \A c \in callers :
    LET f == frame[c] IN
    (f.pc = "done" /\ N = 0) => f.tried = <<Direct>>

\* Number of requests put on the wire for target t.
Sent(f, t) == Cardinality({k \in 1 .. Len(f.sent) : f.sent[k].target = t})

\* Positions of the direct attempt among the targets tried.
DirectTries(f) == {k \in 1 .. Len(f.tried) : f.tried[k] = Direct}

\* C5: when every proxy of a non-empty pool has failed, Do makes exactly
\* one direct attempt if fallbackOK and returns its response if it
\* succeeds; if it fails, or fallbackOK is false, Do returns no response and
\* an error wrapping the last error observed.
C5_FallbackAfterAllProxiesFailed ==
  \A c \in callers :
    LET f == frame[c] IN
    (AllProxiesFailed(f) /\ f.pc = "done") =>
      /\ Cardinality(DirectTries(f)) = (IF fallbackOK THEN 1 ELSE 0)
      /\ f.resp # NoResp =>
            /\ fallbackOK /\ f.resp.via = Direct /\ f.err = NoErr
            /\ f.sent[Len(f.sent)].target = Direct
            /\ f.resp.status = f.sent[Len(f.sent)].outcome
      /\ f.resp = NoResp =>
            /\ Len(f.errs) = Len(f.tried)
            /\ f.err = Wrap("all proxy attempts failed", f.errs[Len(f.errs)])
            /\ f.errs[Len(f.errs)] # NoErr

C5_Witness ==
  \E c \in callers :
    LET f == frame[c] IN
    /\ AllProxiesFailed(f) /\ f.pc = "done" /\ N = 2
    /\ fallbackOK /\ f.resp = NoResp
    /\ Sent(f, Direct) = 2 /\ Sent(f, 0) = 2 /\ Sent(f, 1) = 2

\* C6: when a proxy succeeds, Do returns the response of the first proxy in
\* rotation order that succeeds: every target before it failed, they were
\* tried in rotation order, and nothing is attempted after the success.
C6_FirstSuccessIsReturned ==
  \A c \in callers :
    LET f == frame[c]
        n == Len(f.tried) IN
    /\ \A k \in 1 .. Len(f.sent) :
          f.sent[k].outcome \in Statuses =>
            /\ k = Len(f.sent)
            /\ f.pc = "done"
            /\ f.resp = [via |-> f.sent[k].target, status |-> f.sent[k].outcome]
    /\ (f.resp # NoResp /\ f.resp.via # Direct) =>
          /\ f.pc = "done" /\ f.err = NoErr
          /\ f.tried = SubSeq(Rotation(f.startIdx, N), 1, n)
          /\ f.tried[n] = f.resp.via
          /\ Len(f.errs) = n - 1
          /\ f.sent[Len(f.sent)].outcome \in Statuses

C6_Witness ==
  \E c \in callers :
    LET f == frame[c] IN
    /\ N = 2 /\ f.pc = "done" /\ fallbackOK
    /\ f.tried = <<0, 1>> /\ f.resp.via = 1
    /\ Sent(f, 0) = DefaultMaxRetries /\ maxRetries = DefaultMaxRetries

\* The attempts on target number k of the call have ended in failure.
Failed(f, k) == k <= Len(f.errs)

\* C7: no target gets more than maxRetries requests (none when maxRetries
\* is not positive); after a transport error the same target is tried again
\* until maxRetries requests were made; a response of any status ends the
\* attempts and is never retried.
C7_BoundedRetriesPerProxy ==
  \A c \in callers :
    LET f == frame[c] IN
    /\ \A k \in 1 .. Len(f.tried) :
          LET t == f.tried[k] IN
          /\ Sent(f, t) <= maxRetries \/ Sent(f, t) = 0
          /\ (Failed(f, k) /\ f.errs[k].kind = "request failed after attempts")
                => Sent(f, t) = maxRetries
    /\ \A j \in 1 .. Len(f.sent) :
          /\ f.sent[j].outcome \in Statuses => j = Len(f.sent) /\ f.pc = "done"
          /\ (j < Len(f.sent) /\ f.sent[j + 1].target # f.sent[j].target)
                => Sent(f, f.sent[j].target) = maxRetries
          /\ (j = Len(f.sent) /\ f.sent[j].outcome = 0 /\ Sent(f, f.sent[j].target) < maxRetries)
                => f.pc = "attempt" /\ f.target = f.sent[j].target

C7_Witness ==
  \E c \in callers :
    LET f == frame[c] IN
    /\ f.pc = "done" /\ maxRetries = DefaultMaxRetries /\ N = 1
    /\ Len(f.sent) = 3 /\ f.sent[3].outcome = 500 /\ f.resp.status = 500

\* C8: concurrent calls get their start indices atomically: the K start
\* indices handed out are 0, 1, ..., K-1 (mod N), no two callers are inside
\* the critical section together, and when nobody holds the mutex the cursor
\* is K mod N.
C8_AtomicStartIndices ==
  N >= 1 =>
    /\ \A k \in 1 .. Len(starts) : starts[k] = (k - 1) % N
    /\ Cardinality({c \in callers : frame[c].pc \in {"read", "advance"}}) <= 1
    /\ mutex = Free => currentIdx = Len(starts) % N

C8_Witness ==
  /\ N = 2 /\ Len(starts) = 2 /\ currentIdx = 0
  /\ frame[1].pc = "attempt" /\ frame[2].pc = "attempt"
  /\ frame[1].startIdx = 1 /\ frame[2].startIdx = 0

\* Proxy index t is configured with a malformed endpoint.
Malformed(t) == t # Direct /\ ~(ProxyAt(t).scheme # "")

\* C9: a malformed proxy endpoint fails only that proxy: it yields an
\* 'invalid proxy URL' error without any request on the wire, and Do still
\* tries every remaining proxy of the rotation, then the fallback if allowed.
C9_InvalidProxyOnlyFailsItself ==
  \A c \in callers :
    LET f == frame[c] IN
    /\ \A k \in 1 .. Len(f.tried) :
          Malformed(f.tried[k]) =>
            /\ Sent(f, f.tried[k]) = 0
            /\ Failed(f, k) /\ f.errs[k] = Err("invalid proxy URL")
            /\ (f.pc = "done" /\ k < N) =>
                  /\ Len(f.tried) > k
                  /\ f.tried[k + 1] = (f.tried[k] + 1) % N
            /\ (f.pc = "done" /\ f.resp = NoResp) =>
                  /\ ProxiesTried(f) = Rotation(f.startIdx, N)
                  /\ fallbackOK => f.tried[Len(f.tried)] = Direct

C9_Witness ==
  \E c \in callers :
    LET f == frame[c] IN
    /\ N = 3 /\ f.pc = "done" /\ f.tried = <<1, 2, 0>>
    /\ Malformed(1) /\ ~Malformed(2) /\ ~Malformed(0)
    /\ f.resp.via = 0 /\ Sent(f, 2) = 3

\* C10: a proxy whose attempts failed in one request is not selected by the
\* request that follows it.
C10_FailedProxySkippedNext ==
  \A c \in callers :
    LET f == frame[c] IN
    \A k \in 1 .. Len(f.tried) : f.tried[k] \notin f.prevFailed

\* The targets a call goes through when every attempt fails: the rotation
\* from its start index, then the direct attempt if the fallback is allowed.
Plan(f) == Rotation(f.startIdx, N) \o (IF fallbackOK THEN <<Direct>> ELSE << >>)

MaxPages == 2       \* index pages of the site
MaxVisits == 4      \* calls of scrapePageLinks followed (the loop itself never ends)
LinkChanCap == 2    \* capacity of linkChan, scaled down from make(chan string, 25)
MaxTasks == 2       \* links the dispatcher is followed through
InsertRetries == 3  \* retryInsert(listing, link, 3)

Pages == 1 .. MaxPages

\* The listing hrefs of each index page, in document order. A site has no
\* listings, or every page shows two of them, the first linked twice and the
\* second shown again as the first of the next page.
Sites == {[p \in Pages |-> << >>], [p \in Pages |-> <<p, p + 1, p>>]}

Max(S) == IF S = {} THEN 0 ELSE CHOOSE m \in S : \A x \in S : x <= m

\* The index page as getTotalPages reads it: whether the fetch succeeds, the
\* page numbers in pagination hrefs, the numeric link texts, and the number
\* after the ellipsis in the page text (None when the text has no such run).
IndexDocs ==
  [ok : BOOLEAN, hrefs : SUBSET (0 .. MaxPages), texts : SUBSET (0 .. MaxPages),
   ellipsis : {None} \cup (0 .. MaxPages)]

getTotalPages(doc) ==
  IF ~doc.ok THEN [n |-> 0, err |-> TRUE]
  ELSE LET fromLinks == Max(doc.hrefs \cup doc.texts)
           maxPage == IF fromLinks = 0 /\ doc.ellipsis # None THEN doc.ellipsis ELSE fromLinks
       IN [n |-> IF maxPage = 0 THEN 1 ELSE maxPage, err |-> FALSE]

RECURSIVE removeDuplicateLinks(_)
removeDuplicateLinks(links) ==
  IF links = << >> THEN << >>
  ELSE LET front == removeDuplicateLinks(SubSeq(links, 1, Len(links) - 1))
           last == links[Len(links)]
       IN IF \E k \in 1 .. Len(front) : front[k] = last THEN front ELSE Append(front, last)

\* scrapePageLinks: the page is fetched under the first URL template and, if
\* that fails, under the second; first and second are the fetch outcomes.
scrapePageLinks(pageNum, first, second) ==
  IF first \/ second
  THEN [links |-> removeDuplicateLinks(site[pageNum]), err |-> FALSE,
        fetches |-> IF first THEN 1 ELSE 2]
  ELSE [links |-> << >>, err |-> TRUE, fetches |-> 2]

\* the same wait after every failed attempt
BackoffFlat(attempt) == 2

\* the wait of retryInsert after a failed attempt
Backoff(attempt) == attempt * 2

\* retryInsert, outs[a] telling whether InsertListing succeeds at attempt a
RECURSIVE retryInsertFrom(_, _, _, _)
retryInsertFrom(outs, retries, attempt, waits) ==
  IF attempt > retries THEN [attempts |-> attempt - 1, waits |-> waits, err |-> FALSE]
  ELSE IF outs[attempt] THEN [attempts |-> attempt, waits |-> waits, err |-> FALSE]
  ELSE IF attempt < retries
       THEN retryInsertFrom(outs, retries, attempt + 1, Append(waits, Backoff(attempt)))
       ELSE [attempts |-> attempt, waits |-> waits, err |-> TRUE]

retryInsert(outs, retries) == retryInsertFrom(outs, retries, 1, << >>)

\* main has started the producer and the dispatcher and waits for a signal
InitCrawl ==
  /\ Start({}, {NilClient}) /\ PureOff
  /\ site \in Sites
  /\ prod = [pc |-> "start", totalPages |-> 0, cycleCount |-> 0, page |-> 0,
             links |-> << >>, err |-> FALSE]
  /\ linkChan = << >>
  /\ ctxDone = FALSE
  /\ mainPc = "wait"
  /\ dispPc = "select"
  /\ received = << >>
  /\ tasks = << >>
  /\ inserted = [attempts |-> 0, waits |-> << >>, err |-> FALSE]
  /\ emitted = << >>
  /\ visited = << >>
  /\ late = [page |-> FALSE, task |-> FALSE]

\* the process runs until main returns (or a goroutine panics)
Alive == mainPc \in {"wait", "grace", "closed"}

\* close(linkChan) has been executed
Closed == mainPc = "closed"

\* StartContinuousMonitoring: the call of getTotalPages and the entry into
\* the first cycle
Discover ==
  /\ Alive /\ prod.pc = "start"
  /\ \E doc \in IndexDocs :
       LET r == getTotalPages(doc) IN
       prod' = IF r.err
               THEN [prod EXCEPT !.pc = "failed", !.err = TRUE]
               ELSE [prod EXCEPT !.pc = "page", !.totalPages = r.n,
                                 !.cycleCount = 1, !.page = 1]
  /\ UNCHANGED <<site, inserted, linkChan, ctxDone, mainPc, dispPc, received, tasks, emitted, visited, late>>
  /\ UNCHANGED <<clientVars, pureVars>>

\* the outer loop begins its next cycle
NextCycle(p) ==
  [p EXCEPT !.pc = "page", !.cycleCount = p.cycleCount + 1, !.page = 1, !.links = << >>]

\* the inner loop goes to its next page
NextPage(p) ==
  IF p.page < p.totalPages
  THEN [p EXCEPT !.pc = "page", !.page = p.page + 1, !.links = << >>]
  ELSE NextCycle(p)

\* a failed page ends the cycle
AfterScrapeAbort(p, r) ==
  IF r.err THEN NextCycle(p)
  ELSE IF r.links = << >> THEN NextPage(p)
  ELSE [p EXCEPT !.pc = "send", !.links = r.links]

\* the loop body after scrapePageLinks returned r
AfterScrape(p, r) ==
  IF r.err \/ r.links = << >> THEN NextPage(p)
  ELSE [p EXCEPT !.pc = "send", !.links = r.links]

\* one call of scrapePageLinks(page)
ScrapePage ==
  /\ Alive /\ prod.pc = "page"
  /\ Len(visited) < MaxVisits
  /\ \E first, second \in BOOLEAN :
       LET r == scrapePageLinks(prod.page, first, second) IN
       /\ prod' = AfterScrape(prod, r)
       /\ visited' = Append(visited, [cycle |-> prod.cycleCount, page |-> prod.page,
                                      ok |-> ~r.err])
  /\ late' = [late EXCEPT !.page = @ \/ ctxDone]
  /\ UNCHANGED <<site, inserted, linkChan, ctxDone, mainPc, dispPc, received, tasks, emitted>>
  /\ UNCHANGED <<clientVars, pureVars>>

\* a send on a full buffer takes the place of the newest buffered link
SendOverwrite ==
  /\ Alive /\ prod.pc = "send"
  /\ linkChan' = IF Len(linkChan) < LinkChanCap THEN Append(linkChan, Head(prod.links))
                 ELSE [linkChan EXCEPT ![Len(linkChan)] = Head(prod.links)]
  /\ emitted' = Append(emitted, Head(prod.links))
  /\ prod' = IF Tail(prod.links) = << >> THEN NextPage(prod)
             ELSE [prod EXCEPT !.links = Tail(prod.links)]
  /\ UNCHANGED <<site, inserted, ctxDone, mainPc, dispPc, received, tasks, visited, late>>
  /\ UNCHANGED <<clientVars, pureVars>>

\* linkChan <- link.URL, which blocks while the buffer is full
Send ==
  /\ Alive /\ prod.pc = "send"
  /\ ~Closed
  /\ Len(linkChan) < LinkChanCap
  /\ linkChan' = Append(linkChan, Head(prod.links))
  /\ emitted' = Append(emitted, Head(prod.links))
  /\ prod' = IF Tail(prod.links) = << >> THEN NextPage(prod)
             ELSE [prod EXCEPT !.links = Tail(prod.links)]
  /\ UNCHANGED <<site, inserted, ctxDone, mainPc, dispPc, received, tasks, visited, late>>
  /\ UNCHANGED <<clientVars, pureVars>>

\* dispatcher: case link := <-linkChan, starting the goroutine of the link
Receive ==
  /\ Alive /\ dispPc = "select"
  /\ linkChan # << >>
  /\ Len(tasks) < MaxTasks
  /\ received' = Append(received, Head(linkChan))
  /\ linkChan' = Tail(linkChan)
  /\ tasks' = Append(tasks, [pc |-> "running",
                             afterDrop |-> \E j \in 1 .. Len(tasks) : tasks[j].pc = "dropped"])
  /\ late' = [late EXCEPT !.task = @ \/ ctxDone]
  /\ UNCHANGED <<site, inserted, prod, ctxDone, mainPc, dispPc, emitted, visited>>
  /\ UNCHANGED <<clientVars, pureVars>>

\* dispatcher: case <-ctx.Done()
DispatcherStop ==
  /\ Alive /\ dispPc = "select"
  /\ ctxDone
  /\ dispPc' = "returned"
  /\ UNCHANGED <<site, inserted, prod, linkChan, ctxDone, mainPc, received, tasks, emitted, visited, late>>
  /\ UNCHANGED <<clientVars, pureVars>>

\* the goroutine of one link: ScrapeListing, then retryInsert
Process(k) ==
  /\ Alive /\ tasks[k].pc = "running"
  /\ \E scraped \in BOOLEAN, outs \in [1 .. InsertRetries -> BOOLEAN] :
       LET r == retryInsert(outs, InsertRetries) IN
       /\ tasks' = [tasks EXCEPT ![k] =
                     IF ~scraped THEN [@ EXCEPT !.pc = "scrapeFailed"]
                     ELSE [@ EXCEPT !.pc = IF r.err THEN "dropped" ELSE "stored"]]
       /\ inserted' = IF scraped THEN r ELSE inserted
  /\ UNCHANGED <<site, prod, linkChan, ctxDone, mainPc, dispPc, received, emitted, visited, late>>
  /\ UNCHANGED <<clientVars, pureVars>>

\* main: <-signalChan, cancel(), and the start of the grace sleep
Signal ==
  /\ mainPc = "wait"
  /\ ctxDone' = TRUE
  /\ mainPc' = "grace"
  /\ UNCHANGED <<site, inserted, prod, linkChan, dispPc, received, tasks, emitted, visited, late>>
  /\ UNCHANGED <<clientVars, pureVars>>

\* main returns after the sleep: the process and its goroutines end
Exit ==
  /\ mainPc = "grace"
  /\ mainPc' = "exited"
  /\ UNCHANGED <<site, inserted, prod, linkChan, ctxDone, dispPc, received, tasks, emitted, visited, late>>
  /\ UNCHANGED <<clientVars, pureVars>>

NextCrawl ==
  \/ Discover
  \/ ScrapePage
  \/ Send
  \/ Receive
  \/ DispatcherStop
  \/ \E k \in 1 .. Len(tasks) : Process(k)
  \/ Signal
  \/ Exit

SpecCrawl == InitCrawl /\ [][NextCrawl]_vars

\* C12: a listing URL is sent on the channel at most once in a crawl, over
\* all pages and all cycles.
C12_EmittedAtMostOnce ==
  \A i, j \in 1 .. Len(emitted) : i # j => emitted[i] # emitted[j]

\* C13: once getTotalPages has returned, it has returned no error and a
\* page count of at least 1, also when the index page could not be fetched.
C13_TotalPagesNeverErrs ==
  prod.pc # "start" => (~prod.err /\ prod.totalPages >= 1)

\* C15: after cancel() the producer begins no call of scrapePageLinks.
C15_ProducerStopsOnCancel == ~late.page

\* C16: the calls of scrapePageLinks go through the pages 1..totalPages of
\* cycle 1, then of cycle 2, and so on, whether or not a call failed.
C16_PageFailureDoesNotAbortCycle ==
  prod.pc \in {"page", "send"} =>
    /\ \A k \in 1 .. Len(visited) :
         /\ visited[k].cycle = ((k - 1) \div prod.totalPages) + 1
         /\ visited[k].page = ((k - 1) % prod.totalPages) + 1
    /\ prod.pc = "send" => (prod.cycleCount = visited[Len(visited)].cycle
                            /\ prod.page = visited[Len(visited)].page)
    /\ prod.pc = "page" => (prod.cycleCount = (Len(visited) \div prod.totalPages) + 1
                            /\ prod.page = (Len(visited) % prod.totalPages) + 1)

C16_Witness ==
  /\ prod.totalPages = 2
  /\ Len(visited) >= 3
  /\ ~visited[1].ok
  /\ visited[2] = [cycle |-> 1, page |-> 2, ok |-> TRUE]
  /\ visited[3].cycle = 2 /\ visited[3].page = 1

MaxRuns == 2

\* evaluate f once more on the input
Evaluate(result) ==
  /\ Len(ret) < MaxRuns
  /\ ret' = Append(ret, result)
  /\ UNCHANGED <<arg, clientVars, crawlVars>>

\* IntimcityGoldScraper.isListingLink. A URL is a sequence of pieces: the
\* words of the two pattern lists, a digit run, two words in upper case, and
\* a piece matching nothing.
MaxUrlLen == 3

listingPatterns == {"anketa", "profile", "user", "girl", "id", "listing"}
excludePatterns ==
  {"page=", "p=", "category", "search", "filter", "sort", "login", "register",
   "contact", "about", "help", "javascript:", "mailto:", "tel:", "#"}
Digits == "123"
UrlPieces == listingPatterns \cup excludePatterns \cup {Digits, "ANKETA", "PAGE=", "/"}
URLs == UNION {[1 .. n -> UrlPieces] : n \in 0 .. MaxUrlLen}

\* strings.ToLower
ToLower(url) ==
  [k \in 1 .. Len(url) |->
     IF url[k] = "ANKETA" THEN "anketa" ELSE IF url[k] = "PAGE=" THEN "page=" ELSE url[k]]

\* regexp.MatchString(word\d+, url)
MatchString(word, url) ==
  \E k \in 1 .. Len(url) - 1 : url[k] = word /\ url[k + 1] = Digits

\* strings.Contains(url, pattern)
Contains(url, pattern) == \E k \in 1 .. Len(url) : url[k] = pattern

isListingLink(url) ==
  LET urlLower == ToLower(url) IN
  IF \E pattern \in listingPatterns : MatchString(pattern, urlLower) THEN TRUE
  ELSE IF \E pattern \in excludePatterns : Contains(urlLower, pattern) THEN FALSE
  ELSE FALSE

InitLink ==
  /\ Start({}, {NilClient}) /\ CrawlOff
  /\ arg \in URLs
  /\ ret = << >>

Classify == Evaluate(isListingLink(arg))

SpecLink == InitLink /\ [][Classify]_vars

\* C14: a URL is classified as a listing only if it matches a numeric-ID
\* pattern and contains no exclusion pattern, and every evaluation on the
\* same URL gives the same answer.
C14_ExclusionOverridesId ==
  /\ \A k \in 1 .. Len(ret) :
       ret[k] => /\ \E w \in listingPatterns : MatchString(w, ToLower(arg))
                 /\ ~\E x \in excludePatterns : Contains(ToLower(arg), x)
  /\ \A j, k \in 1 .. Len(ret) : ret[j] = ret[k]

\* ---------------------------------------------------------------------
\* Adapter.FlattenListing: the price fields derived from
\* PricingInfo.DurationPrices (map[string]int32). The legacy keys written in
\* Cyrillic in the source are spelled "chas" and "den" here.

DurationKeys ==
  <<"apartments_day_hour", "apartments_day_2hour", "outcall_day_hour",
    "outcall_day_2hour", "chas", "hour", "den", "day", "base">>
KeySet == {DurationKeys[i] : i \in 1 .. Len(DurationKeys)}
LegacyKeys == {"chas", "hour", "den", "day"}

KeyIndex(k) == CHOOSE i \in 1 .. Len(DurationKeys) : DurationKeys[i] = k

\* a price the extractor stored under key k, each key with its own
SamplePrice(k) == 1000 * KeyIndex(k)

\* price, exists := DurationPrices[k]: a missing key reads as 0, false. A
\* stored price may be 0 and, in the slots converted without a test, negative.
MapEntries(k) ==
  {[exists |-> FALSE, price |-> 0], [exists |-> TRUE, price |-> 0],
   [exists |-> TRUE, price |-> SamplePrice(k)]}
    \cup (IF k \in LegacyKeys THEN {} ELSE {[exists |-> TRUE, price |-> -1]})

\* one entry for each key, in the order of DurationKeys
EntryTuples ==
  MapEntries(DurationKeys[1]) \X MapEntries(DurationKeys[2]) \X MapEntries(DurationKeys[3])
    \X MapEntries(DurationKeys[4]) \X MapEntries(DurationKeys[5]) \X MapEntries(DurationKeys[6])
    \X MapEntries(DurationKeys[7]) \X MapEntries(DurationKeys[8]) \X MapEntries(DurationKeys[9])

NilPricing == [isNil |-> TRUE]
Listings ==
  {[PricingInfo |-> NilPricing]} \cup
  {[PricingInfo |-> [isNil |-> FALSE, DurationPrices |-> dp]] :
     dp \in {[k \in KeySet |-> es[KeyIndex(k)]] : es \in EntryTuples}}

\* the conversion uint32(v) of an int32, as its two 16-bit halves
uint32(v) == [hi |-> (v \div 65536) % 65536, lo |-> v % 65536]

\* u > 0 for a uint32
Positive(u) == u.hi > 0 \/ u.lo > 0

\* the structured field of a slot: set from the map when the key exists
SlotField(dp, k) == IF dp[k].exists THEN uint32(dp[k].price) ELSE uint32(0)

\* price_hour taken from whichever key exists first
PriceHourByPresence(dp) ==
  IF dp["apartments_day_hour"].exists THEN uint32(dp["apartments_day_hour"].price)
  ELSE IF dp["outcall_day_hour"].exists THEN uint32(dp["outcall_day_hour"].price)
  ELSE IF dp["chas"].exists THEN uint32(dp["chas"].price)
  ELSE IF dp["hour"].exists THEN uint32(dp["hour"].price)
  ELSE uint32(0)

PriceHour(dp) ==
  IF Positive(SlotField(dp, "apartments_day_hour")) THEN SlotField(dp, "apartments_day_hour")
  ELSE IF Positive(SlotField(dp, "outcall_day_hour")) THEN SlotField(dp, "outcall_day_hour")
  ELSE IF dp["chas"].exists THEN uint32(dp["chas"].price)
  ELSE IF dp["hour"].exists THEN uint32(dp["hour"].price)
  ELSE uint32(0)

\* price_day taken from the 1-hour day slots
PriceDayFromHourSlots(dp) ==
  IF Positive(SlotField(dp, "apartments_day_hour")) THEN SlotField(dp, "apartments_day_hour")
  ELSE IF Positive(SlotField(dp, "outcall_day_hour")) THEN SlotField(dp, "outcall_day_hour")
  ELSE IF dp["den"].exists THEN uint32(dp["den"].price)
  ELSE IF dp["day"].exists THEN uint32(dp["day"].price)
  ELSE uint32(0)

PriceDay(dp) ==
  IF Positive(SlotField(dp, "apartments_day_2hour")) THEN SlotField(dp, "apartments_day_2hour")
  ELSE IF Positive(SlotField(dp, "outcall_day_2hour")) THEN SlotField(dp, "outcall_day_2hour")
  ELSE IF dp["den"].exists THEN uint32(dp["den"].price)
  ELSE IF dp["day"].exists THEN uint32(dp["day"].price)
  ELSE uint32(0)

PriceBase(dp, priceHour) ==
  IF dp["base"].exists THEN uint32(dp["base"].price) ELSE priceHour

\* the zero value of the price fields of a FlattenedListing
ZeroPrices ==
  [PriceApartmentsDayHour |-> uint32(0), PriceApartmentsDay2Hour |-> uint32(0),
   PriceOutcallDayHour |-> uint32(0), PriceOutcallDay2Hour |-> uint32(0),
   PriceHour |-> uint32(0), PriceDay |-> uint32(0), PriceBase |-> uint32(0)]

FlattenListing(listing) ==
  IF listing.PricingInfo.isNil THEN ZeroPrices
  ELSE LET dp == listing.PricingInfo.DurationPrices IN
       [PriceApartmentsDayHour |-> SlotField(dp, "apartments_day_hour"),
        PriceApartmentsDay2Hour |-> SlotField(dp, "apartments_day_2hour"),
        PriceOutcallDayHour |-> SlotField(dp, "outcall_day_hour"),
        PriceOutcallDay2Hour |-> SlotField(dp, "outcall_day_2hour"),
        PriceHour |-> PriceHour(dp),
        PriceDay |-> PriceDay(dp),
        PriceBase |-> PriceBase(dp, PriceHour(dp))]

InitFlatten ==
  /\ Start({}, {NilClient}) /\ CrawlOff
  /\ arg \in Listings
  /\ ret = << >>

Flatten == Evaluate(FlattenListing(arg))

SpecFlatten == InitFlatten /\ [][Flatten]_vars

\* the entry of key k in the listing, as the flattened record stores it
Has(listing, k) == ~listing.PricingInfo.isNil /\ listing.PricingInfo.DurationPrices[k].exists
Stored(listing, k) ==
  IF Has(listing, k) THEN uint32(listing.PricingInfo.DurationPrices[k].price) ELSE uint32(0)

\* the value of the first candidate that applies, zero when none does
RECURSIVE FirstOf(_)
FirstOf(cands) ==
  IF cands = << >> THEN uint32(0)
  ELSE IF Head(cands).applies THEN Head(cands).value
  ELSE FirstOf(Tail(cands))

IfPositive(listing, k) == [applies |-> Stored(listing, k) # uint32(0), value |-> Stored(listing, k)]
IfPresent(listing, k) == [applies |-> Has(listing, k), value |-> Stored(listing, k)]

C19_PriceDayAndBase ==
  \A n \in 1 .. Len(ret) :
    /\ ret[n].PriceDay =
         FirstOf(<<IfPositive(arg, "apartments_day_2hour"), IfPositive(arg, "outcall_day_2hour"),
                   IfPresent(arg, "den"), IfPresent(arg, "day")>>)
    /\ ret[n].PriceBase = IF Has(arg, "base") THEN Stored(arg, "base") ELSE ret[n].PriceHour

C19_Witness ==
  /\ Len(ret) > 0
  /\ Stored(arg, "apartments_day_hour") = uint32(SamplePrice("apartments_day_hour"))
  /\ ~Has(arg, "apartments_day_2hour")
  /\ Stored(arg, "outcall_day_2hour") = uint32(SamplePrice("outcall_day_2hour"))
  /\ Stored(arg, "den") = uint32(SamplePrice("den"))
  /\ ~Has(arg, "base")
  /\ ret[1].PriceDay = uint32(SamplePrice("outcall_day_2hour"))
  /\ ret[1].PriceBase = uint32(SamplePrice("apartments_day_hour"))

\* ---------------------------------------------------------------------
\* IntimcityScraper.extractPersonalInfo: the four numeric fields. The
\* repository holds three versions of the scraper: one reads the elements
\* with the ids tdankage, tdankhei, tdankwei and tdankbre ("ids"), one reads
\* these and then the rows of the parameter table ("idsTable"), one matches
\* three patterns per field against the page text ("text").

MaxFacts == 2   \* places of a document that hold a value for some field

Fields == {"Age", "Height", "Weight", "BreastSize"}

\* the tests v > lo && v < hi of the gated versions
Range ==
  [Age |-> [lo |-> 16, hi |-> 80], Height |-> [lo |-> 140, hi |-> 220],
   Weight |-> [lo |-> 30, hi |-> 150], BreastSize |-> [lo |-> 0, hi |-> 10]]

Versions == {"ids", "idsTable", "text"}
Structural == {"id", "table"}
Patterns == {"pattern1", "pattern2", "pattern3"}

\* what a place of the document holds: digits, or text that is no number
NotANumber == [num |-> FALSE, val |-> 0]
Number(v) == [num |-> TRUE, val |-> v]
Texts(f) ==
  {Number(v) : v \in {Range[f].lo, Range[f].lo + 1, Range[f].hi - 1, Range[f].hi}}

\* a document is the set of its places that matter: the element with the id
\* of a field, the table row of a field, the first match of a pattern
Facts ==
  {[source |-> src, field |-> f, text |-> t] :
     src \in Structural \cup Patterns, f \in Fields,
     t \in UNION {Texts(g) : g \in Fields} \cup {NotANumber}}
WellFormed(fact) ==
  \/ fact.text \in Texts(fact.field)
  \/ fact.source \in Structural /\ fact.text = NotANumber
\* the documents of at most n places, no place held twice
RECURSIVE DocsOf(_)
DocsOf(n) ==
  IF n = 0 THEN {{}}
  ELSE DocsOf(n - 1) \cup
       {d \cup {fact} : d \in DocsOf(n - 1),
                        fact \in {x \in Facts : WellFormed(x)}}
Docs ==
  {d \in DocsOf(MaxFacts) :
     \A x, y \in d : (x.source = y.source /\ x.field = y.field) => x = y}

Found(doc, src, f) == \E fact \in doc : fact.source = src /\ fact.field = f
TextAt(doc, src, f) == (CHOOSE fact \in doc : fact.source = src /\ fact.field = f).text

InRange(f, v) == v > Range[f].lo /\ v < Range[f].hi

\* part_001, first version: the element's number is stored as it is
extractPersonalInfoIds(doc) ==
  [f \in Fields |->
     IF Found(doc, "id", f) /\ TextAt(doc, "id", f).num
     THEN TextAt(doc, "id", f).val ELSE 0]

\* part_001, second version: the element's number if in range, then, if age
\* or height is still unset, the table row's number if in range
FromIds(doc) ==
  [f \in Fields |->
     IF Found(doc, "id", f) /\ TextAt(doc, "id", f).num /\ InRange(f, TextAt(doc, "id", f).val)
     THEN TextAt(doc, "id", f).val ELSE 0]

extractPersonalInfoIdsTable(doc) ==
  LET info == FromIds(doc) IN
  IF info["Age"] = 0 \/ info["Height"] = 0
  THEN [f \in Fields |->
          IF info[f] = 0 /\ Found(doc, "table", f) /\ TextAt(doc, "table", f).num
               /\ InRange(f, TextAt(doc, "table", f).val)
          THEN TextAt(doc, "table", f).val ELSE info[f]]
  ELSE info

\* intimcity.go: the first of the three patterns whose match is in range
Accepts(doc, p, f) == Found(doc, p, f) /\ InRange(f, TextAt(doc, p, f).val)

extractPersonalInfoText(doc) ==
  [f \in Fields |->
     IF Accepts(doc, "pattern1", f) THEN TextAt(doc, "pattern1", f).val
     ELSE IF Accepts(doc, "pattern2", f) THEN TextAt(doc, "pattern2", f).val
     ELSE IF Accepts(doc, "pattern3", f) THEN TextAt(doc, "pattern3", f).val
     ELSE 0]

extractPersonalInfo(version, doc) ==
  IF version = "ids" THEN extractPersonalInfoIds(doc)
  ELSE IF version = "idsTable" THEN extractPersonalInfoIdsTable(doc)
  ELSE extractPersonalInfoText(doc)

InitExtract ==
  /\ Start({}, {NilClient}) /\ CrawlOff
  /\ arg \in [version : Versions, doc : Docs]
  /\ ret = << >>

Extract == Evaluate(extractPersonalInfo(arg.version, arg.doc))

SpecExtract == InitExtract /\ [][Extract]_vars

\* the plausibility ranges, both ends included
Plausible ==
  [Age |-> 17 .. 79, Height |-> 141 .. 219, Weight |-> 31 .. 149, BreastSize |-> 1 .. 9]

\* C20: in every extracted record each of age, height, weight and breast
\* size is unset (0) or within its plausibility range, whatever strategy
\* found it.
C20_NumericFieldsInRange ==
  \A n \in 1 .. Len(ret) : \A f \in Fields : ret[n][f] = 0 \/ ret[n][f] \in Plausible[f]

\* ---------------------------------------------------------------------
\* extractPrice, in its two versions. A cell text is a sequence of
\* characters; the characters outside ASCII are named by their code points.

Space == " "
NoBreakSpace == "U+00A0"
NarrowNoBreakSpace == "U+202F"
ThinSpace == "U+2009"
Ruble == "U+20BD"
Separators == {Space, NoBreakSpace, NarrowNoBreakSpace, ThinSpace}
DigitSeq == <<"0", "1", "2", "3", "4", "5", "6", "7", "8", "9">>
DigitChars == {DigitSeq[i] : i \in 1 .. Len(DigitSeq)}
DigitValue(c) == (CHOOSE i \in 1 .. Len(DigitSeq) : DigitSeq[i] = c) - 1

\* strings.ReplaceAll(text, old, "") for a one-character old
ReplaceAll(text, old) == SelectSeq(text, LAMBDA c : c # old)

RECURSIVE Decimal(_)
Decimal(ds) ==
  IF ds = << >> THEN 0
  ELSE 10 * Decimal(SubSeq(ds, 1, Len(ds) - 1)) + DigitValue(ds[Len(ds)])

\* strconv.Atoi: an optional sign, then one or more decimal digits and
\* nothing else. (The texts here are short: no value leaves the int32 range.)
Atoi(str) ==
  LET signed == str # << >> /\ Head(str) \in {"+", "-"}
      body == IF signed THEN Tail(str) ELSE str
  IN IF body = << >> \/ \E i \in 1 .. Len(body) : body[i] \notin DigitChars
     THEN [err |-> TRUE, n |-> 0]
     ELSE [err |-> FALSE,
           n |-> IF signed /\ Head(str) = "-" THEN 0 - Decimal(body) ELSE Decimal(body)]

\* extractPrice(text) int32: the result of the first ReplaceAll is replaced
\* by the second, which starts again from text
extractPriceAtoi(text) ==
  LET n0 == ReplaceAll(text, Space)
      n1 == ReplaceAll(text, NarrowNoBreakSpace)
      n2 == ReplaceAll(n1, ThinSpace)
      n3 == ReplaceAll(n2, Ruble)
      r == Atoi(n3)
  IN IF ~r.err THEN r.n ELSE 0

\* the class \s of the regexp package: ASCII white space only
ReSpace == {Space, "\t", "\n", "\f", "\r"}

\* re.FindAllString(text, -1) for [\d\s]+ : the maximal runs of digits and
\* white space, from left to right
RECURSIVE FindAllRuns(_, _)
FindAllRuns(text, run) ==
  IF text = << >> THEN (IF run = << >> THEN << >> ELSE <<run>>)
  ELSE IF Head(text) \in DigitChars \cup ReSpace
       THEN FindAllRuns(Tail(text), Append(run, Head(text)))
       ELSE (IF run = << >> THEN << >> ELSE <<run>>) \o FindAllRuns(Tail(text), << >>)

\* the loop over the matches: the first one that parses and exceeds 100
RECURSIVE FirstPrice(_)
FirstPrice(matches) ==
  IF matches = << >> THEN 0
  ELSE LET r == Atoi(ReplaceAll(ReplaceAll(Head(matches), Space), ThinSpace))
       IN IF ~r.err /\ r.n > 100 THEN r.n ELSE FirstPrice(Tail(matches))

\* extractPrice(text) int
extractPriceRegexp(text) == FirstPrice(FindAllRuns(text, << >>))

PriceVersions == {"atoi", "regexp"}

extractPrice(version, text) ==
  IF version = "atoi" THEN extractPriceAtoi(text) ELSE extractPriceRegexp(text)

\* cell texts: an optional sign, a leading digit group, a separator, a group
\* of three digits, a separator and the currency glyph, each optional
Optional(S) == {<< >>} \cup {<<c>> : c \in S}
CellTexts ==
  {t[1] \o t[2] \o t[3] \o t[4] \o t[5] \o t[6] :
     t \in Optional({"-"}) \X {<< >>, <<"8">>, <<"1", "2">>} \X Optional(Separators)
           \X {<< >>, <<"0", "0", "0">>, <<"5", "0", "0">>} \X Optional(Separators)
           \X Optional({Ruble})}

InitPrice ==
  /\ Start({}, {NilClient}) /\ CrawlOff
  /\ arg \in [version : PriceVersions, text : CellTexts]
  /\ ret = << >>

ParsePrice == Evaluate(extractPrice(arg.version, arg.text))

SpecPrice == InitPrice /\ [][ParsePrice]_vars

\* C25: a cell text made of digits, thousands separators (space, no-break
\* space, narrow no-break space, thin space) and the currency glyph parses to
\* the number its digits spell, and to 0 when it has no digit.
C25_PriceCleanup ==
  \A i \in 1 .. Len(ret) :
    (\A j \in 1 .. Len(arg.text) : arg.text[j] \in DigitChars \cup Separators \cup {Ruble})
      => ret[i] = Decimal(SelectSeq(arg.text, LAMBDA c : c \in DigitChars))

\* ---------------------------------------------------------------------
\* The numeric fields from the page to the flattened record: the values the
\* extractor stores as int32 (extractPersonalInfo by element ids,
\* extractPrice by strconv.Atoi) and their narrowing in FlattenListing.

\* strings.TrimSpace, for the white space of these texts
RECURSIVE TrimLeft(_)
TrimLeft(text) ==
  IF text # << >> /\ Head(text) \in ReSpace \cup {NoBreakSpace} THEN TrimLeft(Tail(text))
  ELSE text

RECURSIVE TrimRight(_)
TrimRight(text) ==
  IF text # << >> /\ text[Len(text)] \in ReSpace \cup {NoBreakSpace}
  THEN TrimRight(SubSeq(text, 1, Len(text) - 1))
  ELSE text

TrimSpace(text) == TrimLeft(TrimRight(text))

\* if text != "" { if v, err := strconv.Atoi(strings.TrimSpace(text));
\* err == nil { field = int32(v) } }
StoreInt(text) ==
  LET r == Atoi(TrimSpace(text)) IN
  IF text # << >> /\ ~r.err THEN r.n ELSE 0

\* texts of the cells #tdankage, #tdankhei, #tdankwei, #tdankbre
AnketaTexts ==
  {<< >>, <<" ", "2", "5", " ">>, <<"1", "7", "0">>, <<"3", "0", "0">>,
   <<"7", "0", "0", "0", "0">>, <<"-", "1">>}

PersonalInfos ==
  {[isNil |-> TRUE]} \cup
  {[isNil |-> FALSE, Age |-> StoreInt(t[1]), Height |-> StoreInt(t[2]),
    Weight |-> StoreInt(t[3]), BreastSize |-> StoreInt(t[4])] :
     t \in AnketaTexts \X AnketaTexts \X AnketaTexts \X AnketaTexts}

\* the prices extractPrice(text) int32 can return
StoredPrices == {extractPriceAtoi(t) : t \in CellTexts}

SlotKeys ==
  {"apartments_day_hour", "apartments_day_2hour", "outcall_day_hour", "outcall_day_2hour"}

\* DurationPrices holding price v under key k and nothing else
OnePrice(k, v) ==
  [j \in KeySet |-> IF j = k THEN [exists |-> TRUE, price |-> v]
                    ELSE [exists |-> FALSE, price |-> 0]]

NumericListings ==
  {[PersonalInfo |-> t[1], PricingInfo |-> t[2]] :
     t \in PersonalInfos \X
           ({NilPricing} \cup
            {[isNil |-> FALSE, DurationPrices |-> OnePrice(kv[1], kv[2])] :
               kv \in SlotKeys \X StoredPrices})}

\* the conversions uint8(v) and uint16(v) of an int32
uint8(v) == v % 256
uint16(v) == v % 65536

\* FlattenListing, lines 182-191: the numeric personal fields
FlattenPersonal(listing) ==
  IF listing.PersonalInfo.isNil
  THEN [PersonalAge |-> 0, PersonalHeight |-> 0, PersonalWeight |-> 0, PersonalBreastSize |-> 0]
  ELSE [PersonalAge |-> uint8(listing.PersonalInfo.Age),
        PersonalHeight |-> uint16(listing.PersonalInfo.Height),
        PersonalWeight |-> uint16(listing.PersonalInfo.Weight),
        PersonalBreastSize |-> uint8(listing.PersonalInfo.BreastSize)]

InitNumeric ==
  /\ Start({}, {NilClient}) /\ CrawlOff
  /\ arg \in NumericListings
  /\ ret = << >>

FlattenNumeric ==
  Evaluate([personal |-> FlattenPersonal(arg), prices |-> FlattenListing(arg)])

SpecNumeric == InitNumeric /\ [][FlattenNumeric]_vars

\* the uint32 u holds the value of the int v
SameUnsigned(u, v) == v >= 0 /\ u.hi = v \div 65536 /\ u.lo = v % 65536

\* the slot of key k, read from flattened prices pr, holds what the listing
\* stored under k
SlotKept(listing, k, field) ==
  Has(listing, k) => SameUnsigned(field, listing.PricingInfo.DurationPrices[k].price)

\* C30: every flattened numeric field equals the int32 value the extractor
\* stored: age and breast size as 8-bit, height and weight as 16-bit, each
\* price slot as unsigned 32-bit.
C30_FlattenPreservesNumbers ==
  \A i \in 1 .. Len(ret) :
    /\ ~arg.PersonalInfo.isNil =>
         /\ ret[i].personal.PersonalAge = arg.PersonalInfo.Age
         /\ ret[i].personal.PersonalHeight = arg.PersonalInfo.Height
         /\ ret[i].personal.PersonalWeight = arg.PersonalInfo.Weight
         /\ ret[i].personal.PersonalBreastSize = arg.PersonalInfo.BreastSize
    /\ SlotKept(arg, "apartments_day_hour", ret[i].prices.PriceApartmentsDayHour)
    /\ SlotKept(arg, "apartments_day_2hour", ret[i].prices.PriceApartmentsDay2Hour)
    /\ SlotKept(arg, "outcall_day_hour", ret[i].prices.PriceOutcallDayHour)
    /\ SlotKept(arg, "outcall_day_2hour", ret[i].prices.PriceOutcallDay2Hour)

\* ---------------------------------------------------------------------
\* IntimcityScraper.extractServiceInfo, in its three versions: "plain"
\* (part_001:243), "dedup" (part_001:824, which ends with removeDuplicates)
\* and "links" (internal/scraper/intimcity.go:275, hyperlinks only).
\*
\* A page is the list of its service entries, each a hyperlink with or
\* without a checkbox before it, the fact that the entries sit in a services
\* table, and the set of meeting keywords its lower-cased text contains. The
\* keywords are Cyrillic in the source and transliterated here.

ServiceTexts == {<<"S", "e", "x">>, <<"S", "e", "x", "+", "5">>, <<"+", "5", "0">>}
Boxes == {"none", "checked", "unchecked"}
Entries == [box : Boxes, text : ServiceTexts, href : BOOLEAN]
EntryLists == {<< >>} \cup {<<e>> : e \in Entries} \cup (Entries \X Entries)
Keywords == {"apartamenty", "kvartir", "doma", "otel", "gostin", "vyezd"}
ServiceVersions == {"plain", "dedup", "links"}
ServiceDocs == [table : BOOLEAN, entries : EntryLists, words : SUBSET Keywords]

cleanString(str) == TrimSpace(str)

\* serviceName != "" && len(serviceName) > 2 && len(serviceName) < 100
NameOK(str) == str # << >> /\ Len(str) > 2 /\ Len(str) < 100

\* strings.Contains(text, "+") and strings.Split(text, "+")[0]
HasPlus(text) == \E i \in 1 .. Len(text) : text[i] = "+"
BeforePlus(text) ==
  IF HasPlus(text)
  THEN SubSeq(text, 1, (CHOOSE i \in 1 .. Len(text) :
                          text[i] = "+" /\ \A j \in 1 .. i - 1 : text[j] # "+") - 1)
  ELSE text

\* the names appended, in document order, for the entries that satisfy keep
Appended(entries, keep(_), name(_)) ==
  LET kept == SelectSeq(entries, keep) IN [i \in 1 .. Len(kept) |-> name(kept[i])]

\* the name read for a checkbox: the text of the link next to it
BoxName(e) == cleanString(TrimSpace(e.text))

\* the checkbox pass: checked boxes and unchecked boxes
CheckedNames(entries) ==
  Appended(entries, LAMBDA e : e.box = "checked" /\ NameOK(TrimSpace(e.text)), BoxName)
UncheckedNames(entries) ==
  Appended(entries, LAMBDA e : e.box = "unchecked" /\ NameOK(TrimSpace(e.text)), BoxName)

\* the link pass of the table versions: cleanString, then the test for "+"
LinkAvailable(entries) ==
  Appended(entries,
           LAMBDA e : e.href /\ NameOK(TrimSpace(e.text)) /\ ~HasPlus(e.text),
           LAMBDA e : cleanString(TrimSpace(e.text)))
LinkAdditional(entries) ==
  Appended(entries,
           LAMBDA e : e.href /\ NameOK(TrimSpace(e.text)) /\ HasPlus(e.text),
           LAMBDA e : TrimSpace(BeforePlus(cleanString(TrimSpace(e.text)))))

\* the link pass of the "links" version: Split first, then cleanString
LinksOnlyAdditional(entries) ==
  Appended(entries,
           LAMBDA e : e.href /\ NameOK(TrimSpace(e.text)) /\ HasPlus(e.text),
           LAMBDA e : cleanString(BeforePlus(TrimSpace(e.text))))

\* removeDuplicates: the first occurrence of each non-empty item, in order
RECURSIVE removeDuplicates(_)
removeDuplicates(slice) ==
  IF slice = << >> THEN << >>
  ELSE LET front == SubSeq(slice, 1, Len(slice) - 1)
           item == slice[Len(slice)]
       IN IF item = << >> \/ \E i \in 1 .. Len(front) : front[i] = item
          THEN removeDuplicates(front)
          ELSE Append(removeDuplicates(front), item)

\* meeting type of the table versions
MeetingTypeTable(words) ==
  LET apartment == IF "apartamenty" \in words THEN "apartment" ELSE "" IN
  IF "vyezd" \in words THEN (IF apartment # "" THEN "both" ELSE "outcall")
  ELSE apartment

\* meeting type of the "links" version: three tests, the last one that
\* succeeds decides
MeetingTypeLinks(words) ==
  LET first == IF "kvartir" \in words \/ "doma" \in words THEN "apartment" ELSE ""
      second == IF "otel" \in words \/ "gostin" \in words THEN "hotel" ELSE first
  IN IF "vyezd" \in words THEN "outcall" ELSE second

extractServiceInfo(version, doc) ==
  IF version = "links"
  THEN [AvailableServices |-> removeDuplicates(LinkAvailable(doc.entries)),
        AdditionalServices |-> removeDuplicates(LinksOnlyAdditional(doc.entries)),
        Restrictions |-> << >>,
        MeetingType |-> MeetingTypeLinks(doc.words)]
  ELSE LET entries == IF doc.table THEN doc.entries ELSE << >>
           available == CheckedNames(entries) \o LinkAvailable(entries)
           additional == LinkAdditional(entries)
           restrictions == UncheckedNames(entries)
       IN IF version = "dedup"
          THEN [AvailableServices |-> removeDuplicates(available),
                AdditionalServices |-> removeDuplicates(additional),
                Restrictions |-> removeDuplicates(restrictions),
                MeetingType |-> MeetingTypeTable(doc.words)]
          ELSE [AvailableServices |-> available,
                AdditionalServices |-> additional,
                Restrictions |-> restrictions,
                MeetingType |-> MeetingTypeTable(doc.words)]

InitService ==
  /\ Start({}, {NilClient}) /\ CrawlOff
  /\ arg \in [version : ServiceVersions, doc : ServiceDocs]
  /\ ret = << >>

ExtractService == Evaluate(extractServiceInfo(arg.version, arg.doc))

SpecService == InitService /\ [][ExtractService]_vars

Items(list) == {list[i] : i \in 1 .. Len(list)}

\* C23: in the versions that read checkboxes, a page with checkbox markup
\* has its services classified by the checkboxes alone: every name in the
\* available list is the name of a checked box, so an unchecked service is
\* not made available by its link text.
C23_CheckboxesDecideAlone ==
  \A i \in 1 .. Len(ret) :
    (/\ arg.version # "links"
     /\ arg.doc.table
     /\ \E k \in 1 .. Len(arg.doc.entries) : arg.doc.entries[k].box # "none")
      => \A name \in Items(ret[i].AvailableServices) :
           \E k \in 1 .. Len(arg.doc.entries) :
             /\ arg.doc.entries[k].box = "checked"
             /\ TrimSpace(arg.doc.entries[k].text) = name

\* the page text holds a keyword for meetings at the provider's place
IncallWords(version) ==
  IF version = "links" THEN {"kvartir", "doma", "otel", "gostin"} ELSE {"apartamenty"}

\* C24: the meeting type is "both" when an outcall keyword and an
\* incall/apartment keyword are present, the kind present when only one is,
\* and empty when neither is.
C24_MeetingType ==
  \A i \in 1 .. Len(ret) :
    LET outcall == "vyezd" \in arg.doc.words
        incall == arg.doc.words \cap IncallWords(arg.version) # {}
    IN /\ (outcall /\ incall) => ret[i].MeetingType = "both"
       /\ (outcall /\ ~incall) => ret[i].MeetingType = "outcall"
       /\ (~outcall /\ incall) => ret[i].MeetingType \in {"apartment", "hotel"}
       /\ (~outcall /\ ~incall) => ret[i].MeetingType = ""

NoEmptyNoDuplicate(list) ==
  /\ \A k \in 1 .. Len(list) : list[k] # << >>
  /\ \A k, l \in 1 .. Len(list) : list[k] = list[l] => k = l

\* C29: no name is both available and a restriction, and no list holds an
\* empty string or a duplicate.
C29_ServiceListsDisjointAndClean ==
  \A i \in 1 .. Len(ret) :
    /\ Items(ret[i].AvailableServices) \cap Items(ret[i].Restrictions) = {}
    /\ NoEmptyNoDuplicate(ret[i].AvailableServices)
    /\ NoEmptyNoDuplicate(ret[i].AdditionalServices)
    /\ NoEmptyNoDuplicate(ret[i].Restrictions)

\* ---------------------------------------------------------------------
\* ScrapeListing: the pricing information (extractPricingInfo, part_001:702)
\* and the photos (extractPhotos, part_001:1050) of one fetched document.
\* The other fields of the listing are computed from the document alone.
\*
\* A pricing table is a list of rows of four cells. A cell has the class of
\* its lower-cased text as a column header ("chas": holds the word for hour
\* and no 2; "2chasa"; "noch"; "apartamenty" and "vyezd": the row labels),
\* its text as a price, and whether it has the class colorred. Maps are sets
\* of <<key, value>> pairs with one pair for a key.

Put(map, key, value) == {p \in map : p[1] # key} \cup {<<key, value>>}

PriceTypes == {"hour_day", "2_hours", "hour_night", "night"}

\* the block "Map header columns" for the cell at colIndex of a row
MapHeaderCell(columnMap, row, colIndex) ==
  LET head == row.cells[colIndex + 1].head IN
  IF head = "chas"
  THEN (IF row.dnem \/ row.rowIndex <= 2
        THEN Put(columnMap, "hour_day", colIndex)
        ELSE Put(columnMap, "hour_night", colIndex))
  ELSE IF head = "2chasa" THEN Put(columnMap, "2_hours", colIndex)
  ELSE IF head = "noch" THEN Put(columnMap, "night", colIndex)
  ELSE columnMap

RECURSIVE MapHeader(_, _, _)
MapHeader(columnMap, row, colIndex) ==
  IF colIndex = Len(row.cells) THEN columnMap
  ELSE MapHeader(MapHeaderCell(columnMap, row, colIndex), row, colIndex + 1)

\* the switch on priceType
StorePrice(prices, prefix, priceType, price) ==
  IF priceType = "hour_day"
  THEN Put(Put(prices, "chas", price), prefix \o "_hour_day", price)
  ELSE IF priceType = "2_hours"
  THEN Put(Put(prices, "2 chasa", price), prefix \o "_2hours", price)
  ELSE IF priceType = "hour_night"
  THEN Put(prices, prefix \o "_hour_night", price)
  ELSE Put(Put(prices, "noch", price), prefix \o "_night", price)

\* for priceType, mappedCol := range columnMap { if colIndex == mappedCol
\* { ...; break } }: the iteration order of a map is not specified, so the
\* first key found is any key mapped to the column; pick names the key an
\* iteration meets first when it is one of them
FirstMapped(columnMap, colIndex, pick) ==
  LET mapped == {p[1] : p \in {q \in columnMap : q[2] = colIndex}} IN
  IF pick \in mapped THEN {pick}
  ELSE IF mapped = {} THEN {}
  ELSE {CHOOSE k \in mapped : TRUE}

\* the block "Extract price data rows" for the cell at colIndex
PriceCell(prices, columnMap, row, prefix, colIndex, picks) ==
  LET cell == row.cells[colIndex + 1]
      price == extractPriceRegexp(TrimSpace(cell.text))
      first == FirstMapped(columnMap, colIndex, picks)
  IN IF cell.colorred /\ price > 0 /\ first # {}
     THEN StorePrice(prices, prefix, CHOOSE k \in first : TRUE, price)
     ELSE prices

RECURSIVE PriceCells(_, _, _, _, _, _)
PriceCells(prices, columnMap, row, prefix, colIndex, picks) ==
  IF colIndex = Len(row.cells) THEN prices
  ELSE PriceCells(PriceCell(prices, columnMap, row, prefix, colIndex, picks),
                  columnMap, row, prefix, colIndex + 1, picks)

\* one iteration of pricingTable.Find("tr").Each
PriceRow(acc, row, picks) ==
  LET columnMap == IF Len(row.cells) >= 4 THEN MapHeader(acc.columnMap, row, 0)
                   ELSE acc.columnMap
      label == row.cells[1].head
  IN IF Len(row.cells) >= 4 /\ label \in {"apartamenty", "vyezd"}
     THEN [columnMap |-> columnMap,
           prices |-> PriceCells(acc.prices, columnMap, row,
                                 IF label = "vyezd" THEN "outcall" ELSE "apartments",
                                 0, picks)]
     ELSE [columnMap |-> columnMap, prices |-> acc.prices]

RECURSIVE PriceRows(_, _, _)
PriceRows(acc, rows, picks) ==
  IF rows = << >> THEN acc
  ELSE PriceRows(PriceRow(acc, Head(rows), picks), Tail(rows), picks)

\* the regexp (.+?)\+(\d+) on a link text: the name before the first "+"
\* that follows a character and precedes a digit, and the digits after it
PlusAt(text) ==
  {i \in 2 .. Len(text) - 1 : text[i] = "+" /\ text[i + 1] \in DigitChars}

RECURSIVE DigitRun(_)
DigitRun(text) ==
  IF text # << >> /\ Head(text) \in DigitChars THEN <<Head(text)>> \o DigitRun(Tail(text))
  ELSE << >>

ServicePrice(servicePrices, link) ==
  LET text == TrimSpace(link) IN
  IF HasPlus(text) /\ PlusAt(text) # {}
  THEN LET i == CHOOSE k \in PlusAt(text) : \A l \in PlusAt(text) : k <= l
           r == Atoi(DigitRun(SubSeq(text, i + 1, Len(text))))
       IN IF ~r.err THEN Put(servicePrices, TrimSpace(SubSeq(text, 1, i - 1)), r.n)
          ELSE servicePrices
  ELSE servicePrices

RECURSIVE ServicePricesOf(_, _)
ServicePricesOf(servicePrices, links) ==
  IF links = << >> THEN servicePrices
  ELSE ServicePricesOf(ServicePrice(servicePrices, Head(links)), Tail(links))

extractPricingInfo(doc, picks) ==
  [DurationPrices |-> PriceRows([columnMap |-> {}, prices |-> {}], doc.rows, picks).prices,
   ServicePrices |-> ServicePricesOf({}, doc.links),
   Currency |-> "RUB"]

\* extractPhotos: the images come from FetchJsonImgs(s.Url), a POST request
\* made during the extraction; fetched is what that request returned
extractPhotos(fetched) ==
  IF fetched.err THEN << >>
  ELSE [i \in 1 .. Len(fetched.imgs) |-> "https://a.intimcity.gold" \o fetched.imgs[i]]

Fetched ==
  {[err |-> TRUE, imgs |-> << >>], [err |-> FALSE, imgs |-> << >>],
   [err |-> FALSE, imgs |-> <<"/a.jpg", "/b.jpg">>]}

ScrapeListing(doc, picks, fetched) ==
  [PricingInfo |-> extractPricingInfo(doc, picks), Photos |-> extractPhotos(fetched)]

\* the pages: a header row at index 0, possibly a second header row at index
\* 3, and a data row after them
HeaderCells == {[head |-> h, text |-> << >>, colorred |-> FALSE] : h \in {"chas", "2chasa", "noch"}}
BlankCell == [head |-> "other", text |-> << >>, colorred |-> FALSE]
PriceCellsOf ==
  {[head |-> "other", text |-> <<"5", "0", "0", "0">>, colorred |-> TRUE],
   [head |-> "other", text |-> <<"7", " ", "0", "0", "0">>, colorred |-> TRUE],
   [head |-> "other", text |-> <<"5", "0", "0", "0">>, colorred |-> FALSE]}
NochCell == [head |-> "noch", text |-> << >>, colorred |-> FALSE]
FirstHeader ==
  [rowIndex |-> 0, dnem |-> TRUE,
   cells |-> <<BlankCell, [head |-> "chas", text |-> << >>, colorred |-> FALSE],
               [head |-> "2chasa", text |-> << >>, colorred |-> FALSE],
               NochCell>>]
SecondHeaders ==
  {[rowIndex |-> 3, dnem |-> t[1], cells |-> <<BlankCell, t[2], t[3], NochCell>>] :
     t \in BOOLEAN \X HeaderCells \X HeaderCells}
DataRows ==
  {[rowIndex |-> 4, dnem |-> FALSE,
    cells |-> <<[head |-> t[1], text |-> << >>, colorred |-> FALSE], t[2], t[3],
                [head |-> "other", text |-> <<"9", "0", "0", "0">>, colorred |-> TRUE]>>] :
     t \in {"apartamenty", "vyezd"} \X PriceCellsOf \X PriceCellsOf}
PriceLinks == {<< >>, <<<<"S", "e", "x", "+", "5">>, <<"+", "5", "0">>>>}
PriceDocs ==
  {[rows |-> <<FirstHeader, t[1]>>, links |-> t[2]] : t \in DataRows \X PriceLinks}
  \cup
  {[rows |-> <<FirstHeader, t[1], t[2]>>, links |-> t[3]] :
     t \in SecondHeaders \X DataRows \X PriceLinks}

InitListing ==
  /\ Start({}, {NilClient}) /\ CrawlOff
  /\ arg \in PriceDocs
  /\ ret = << >>

\* one run of the extraction on the document
Scrape ==
  \E pick \in PriceTypes, fetched \in Fetched :
    Evaluate(ScrapeListing(arg, pick, fetched))

SpecListing == InitListing /\ [][Scrape]_vars

\* C21: two runs of the extraction on the same document give the same
\* listing.
C21_ExtractionRepeatable ==
  \A i, j \in 1 .. Len(ret) : ret[i] = ret[j]

\* ---------------------------------------------------------------------
\* cmd/intimcity_gold_callback_example: the channel-based continuous
\* scraper. The producer is StartContinuousMonitoring (Discover, ScrapePage,
\* Send); the consumer ranges over linkChan; main closes linkChan on the
\* shutdown signal and returns.

InitCallback ==
  /\ Start({}, {NilClient}) /\ PureOff
  /\ site \in Sites
  /\ prod = [pc |-> "start", totalPages |-> 0, cycleCount |-> 0, page |-> 0,
             links |-> << >>, err |-> FALSE]
  /\ linkChan = << >>
  /\ ctxDone = FALSE
  /\ mainPc = "wait"
  /\ dispPc = "range"
  /\ received = << >>
  /\ tasks = << >>
  /\ inserted = [attempts |-> 0, waits |-> << >>, err |-> FALSE]
  /\ emitted = << >>
  /\ visited = << >>
  /\ late = [page |-> FALSE, task |-> FALSE]

\* linkChan <- link.URL on the closed channel: the goroutine panics and the
\* process ends
SendOnClosed ==
  /\ Alive /\ prod.pc = "send"
  /\ Closed
  /\ prod' = [prod EXCEPT !.pc = "panic"]
  /\ mainPc' = "exited"
  /\ UNCHANGED <<site, inserted, linkChan, ctxDone, dispPc, received, tasks, emitted, visited, late>>
  /\ UNCHANGED <<clientVars, pureVars>>

\* for link := range linkChan: one iteration
RangeLink ==
  /\ Alive /\ dispPc = "range"
  /\ linkChan # << >>
  /\ received' = Append(received, Head(linkChan))
  /\ linkChan' = Tail(linkChan)
  /\ UNCHANGED <<site, inserted, prod, ctxDone, mainPc, dispPc, tasks, emitted, visited, late>>
  /\ UNCHANGED <<clientVars, pureVars>>

\* the range loop ends once the channel is closed and drained
RangeEnd ==
  /\ Alive /\ dispPc = "range"
  /\ Closed /\ linkChan = << >>
  /\ dispPc' = "returned"
  /\ UNCHANGED <<site, inserted, prod, linkChan, ctxDone, mainPc, received, tasks, emitted, visited, late>>
  /\ UNCHANGED <<clientVars, pureVars>>

\* main: <-signalChan, then close(linkChan)
CloseLinkChan ==
  /\ mainPc = "wait"
  /\ mainPc' = "closed"
  /\ UNCHANGED <<site, inserted, prod, linkChan, ctxDone, dispPc, received, tasks, emitted, visited, late>>
  /\ UNCHANGED <<clientVars, pureVars>>

\* main returns: the process and its goroutines end
Return ==
  /\ mainPc = "closed"
  /\ mainPc' = "exited"
  /\ UNCHANGED <<site, inserted, prod, linkChan, ctxDone, dispPc, received, tasks, emitted, visited, late>>
  /\ UNCHANGED <<clientVars, pureVars>>

NextCallback ==
  \/ Discover
  \/ ScrapePage
  \/ Send
  \/ SendOnClosed
  \/ RangeLink
  \/ RangeEnd
  \/ CloseLinkChan
  \/ Return

SpecCallback == InitCallback /\ [][NextCallback]_vars

\* C27: the producer never sends on the closed link channel.
C27_NoSendOnClosedChannel == prod.pc # "panic"

\* C22: linkChan never holds more than its capacity, and the links sent are
\* exactly the links received followed by the links still buffered, in the
\* order they were sent: nothing is dropped, overwritten or reordered.
C22_BufferBoundedFifo ==
  /\ Len(linkChan) <= LinkChanCap
  /\ emitted = received \o linkChan

C22_Witness ==
  /\ Len(linkChan) = LinkChanCap
  /\ prod.pc = "send"
  /\ Len(received) >= 1
  /\ emitted[1] # emitted[2]

\* C26: with maxRetries at 0 or below, a finished Do call has put no request
\* on the wire, through no proxy and not directly, and has returned an error.
C26_NoRetriesNoRequest ==
  \A c \in callers :
    (maxRetries <= 0 /\ frame[c].pc = "done") =>
      /\ frame[c].sent = << >>
      /\ frame[c].resp = NoResp
      /\ frame[c].err # NoErr

C26_Witness ==
  \E c \in callers :
    /\ maxRetries = 0 /\ fallbackOK /\ N = 2
    /\ frame[c].pc = "done"
    /\ Len(frame[c].tried) = 3
    /\ frame[c].err = Wrap("all proxy attempts failed", Err("unexpected end of retry loop"))

\* C28: no goroutine for a link is started after cancel().
C28_NoDispatchAfterCancel == ~late.task

====
